---- MODULE Spec2Model ----
(***************************************************************************)
(* Model of the dbt column-lineage harvester: the metadata API client      *)
(* (src/metadata_api.py) and the top-level procedure (src/get_lineage.py). *)
(*                                                                         *)
(* Data representation                                                     *)
(*   - a Python str is a sequence of atoms; an atom is one character, or   *)
(*     an indivisible run of characters where the code never looks inside  *)
(*     it (a query keyword, a digit run);                                  *)
(*   - None is Null, a value different from every str;                     *)
(*   - a JSON object / Python dict is a function from keys (TLA+ strings)  *)
(*     to values, {} is EmptyMap, a JSON array / Python list is a sequence;*)
(*   - a DataFrame is the sequence of its rows, a row is a function from   *)
(*     column names to values, pd.DataFrame() is the empty sequence;       *)
(*   - the outcome of a call that may raise is [raised, value].            *)
(***************************************************************************)
EXTENDS Integers, Sequences, FiniteSets, TLC

VARIABLES
    pc,                 \* position of the procedure being run
    arg,                \* argument of the function applied (function specifications)
    ret,                \* its outcome (function specifications)
    http,               \* the POSTs so far, in order: the query sent and the answer
    model_df,           \* main: model_df (get_lineage.py:11)
    response,           \* the response a query_* call returned and a parse_* call reads next
    build_model_df,     \* build_comprehensive_column_lineage: model_df (metadata_api.py:276)
    idx,                \* build: index of the row the loop is at
    all_column_lineage_rows, \* build: the list of per-model tables
    column_lineage_df,  \* main: column_lineage_df (get_lineage.py:21)
    files,              \* parquet files written: file name -> table
    col_queried         \* node_unique_id of each query_column_lineage call, in order

vars == <<pc, arg, ret, http, model_df, response, build_model_df, idx,
          all_column_lineage_rows, column_lineage_df, files, col_queried>>

mainVars == <<model_df, response, build_model_df, idx, all_column_lineage_rows,
              column_lineage_df, files, col_queried>>

----------------------------------------------------------------------------
(* Bounds of the model *)

\* free prefix of a parent list (each element any of the chosen identifiers)
MaxFree == 1
\* length of the run of distinct parents appended to it (beyond the 10 columns)
MaxFill == 11
\* dot-separated segments of an identifier drawn exhaustively
MaxSegments == 3
\* entries of a lineage array
MaxEntries == 2
\* characters of a column name
MaxNameLen == 2
\* pieces a query template is put together from
MaxTemplatePieces == 2
\* pieces a variable's value is put together from
MaxValuePieces == 1

----------------------------------------------------------------------------
(* Values *)

Null == <<"None">>
EmptyMap == [k \in {} |-> Null]
EmptyDataFrame == <<>>

Ok(v) == [raised |-> FALSE, value |-> v]
Raise(e) == [raised |-> TRUE, value |-> e]

\* dict.get(key): the value, None when the key is absent
Get(d, key) == IF key \in DOMAIN d THEN d[key] ELSE Null

\* all sequences over S of length 0..n
RECURSIVE SeqsUpTo(_, _)
SeqsUpTo(S, n) ==
    IF n = 0 THEN {<<>>}
    ELSE LET shorter == SeqsUpTo(S, n - 1)
         IN  shorter \cup {Append(s, x) : s \in {t \in shorter : Len(t) = n - 1}, x \in S}

\* the concatenation of a sequence of sequences
RECURSIVE Flatten(_)
Flatten(ss) == IF ss = <<>> THEN <<>> ELSE Head(ss) \o Flatten(Tail(ss))

----------------------------------------------------------------------------
(* extract_parent_model_name, metadata_api.py:145-160 *)

ModelDot == <<"m", "o", "d", "e", "l", ".">>

\* str.startswith
StartsWith(s, prefix) ==
    /\ Len(s) >= Len(prefix)
    /\ SubSeq(s, 1, Len(prefix)) = prefix

\* the longest prefix of s without a '.': what the greedy group [^.]+ takes
RECURSIVE NoDotRun(_)
NoDotRun(s) ==
    IF s = <<>> \/ Head(s) = "." THEN <<>>
    ELSE <<Head(s)>> \o NoDotRun(Tail(s))

\* re.match(r'model\.([^.]+)\.([^.]+)', parent_id): the two groups, or Null.
\* [^.]+ cannot give back a character to let the following \. match, so the
\* greedy run is the only candidate for each group.
ReMatchModel(parent_id) ==
    IF ~StartsWith(parent_id, ModelDot) THEN Null
    ELSE LET rest1 == SubSeq(parent_id, Len(ModelDot) + 1, Len(parent_id))
             package == NoDotRun(rest1)
             rest2 == SubSeq(rest1, Len(package) + 1, Len(rest1))
         IN  IF package = <<>> \/ rest2 = <<>> \/ Head(rest2) # "." THEN Null
             ELSE LET model_name == NoDotRun(Tail(rest2))
                  IN  IF model_name = <<>> THEN Null
                      ELSE <<package, model_name>>

extract_parent_model_name(parent_id) ==
    IF StartsWith(parent_id, ModelDot)
    THEN LET match == ReMatchModel(parent_id)
         IN  IF match # Null THEN match[1] \o <<".">> \o match[2] ELSE Null
    ELSE Null

\* truthiness of an Optional[str]
Truthy(v) == v # Null /\ v # <<>>

----------------------------------------------------------------------------
(* parse_model_lineage_to_df, metadata_api.py:162-212 *)

\* range(1, 11) at line 204
NumModelParentColumns == 10
ModelParentKeys == <<"parent_1", "parent_2", "parent_3", "parent_4", "parent_5",
                     "parent_6", "parent_7", "parent_8", "parent_9", "parent_10">>

\* faulty variant: lines 203-208 indexing the list with i instead of i-1
FanOutOffByOne(keys, n, values) ==
    [k \in {keys[i] : i \in 1..n} |->
        LET i == CHOOSE j \in 1..n : keys[j] = k
        IN  IF i < Len(values) THEN values[i + 1] ELSE Null]

\* lines 203-208: f"parent_{i}" for i in range(1, 11), null beyond the list
FanOut(keys, n, values) ==
    [k \in {keys[i] : i \in 1..n} |->
        LET i == CHOOSE j \in 1..n : keys[j] = k
        IN  IF i <= Len(values) THEN values[i] ELSE Null]

\* faulty variant: line 201 without its filter: a non-model parent leaves a null
model_parents_unfiltered(parent_ids) ==
    [i \in 1..Len(parent_ids) |-> extract_parent_model_name(parent_ids[i])]

\* line 201: the list comprehension over parent_ids
model_parents(parent_ids) ==
    LET names == [i \in 1..Len(parent_ids) |-> extract_parent_model_name(parent_ids[i])]
    IN  SelectSeq(names, Truthy)

\* lines 180-210: one row
ModelRow(model) ==
    [project_id |-> Get(model, "projectId"),
     database |-> Get(model, "database"),
     schema |-> Get(model, "schema"),
     name |-> Get(model, "name"),
     node_id |-> Get(model, "uniqueId"),
     tags |-> Get(model, "tags"),
     resource_type |-> Get(model, "resourceType"),
     materialization |-> Get(model, "materializationType"),
     access |-> Get(model, "access"),
     group |-> Get(model, "group"),
     version |-> Get(model, "version"),
     parent_ids |-> Get(model, "parentIds"),
     public_parent_ids |-> Get(model, "publicParentIds")]
    @@ FanOut(ModelParentKeys, NumModelParentColumns,
              model_parents(IF "parentIds" \in DOMAIN model THEN model["parentIds"] ELSE <<>>))

parse_model_lineage_to_df(response_data) ==
    IF \/ DOMAIN response_data = {}
       \/ "data" \notin DOMAIN response_data
       \/ "environment" \notin DOMAIN response_data["data"]
    THEN Ok(EmptyDataFrame)
    ELSE IF \/ "definition" \notin DOMAIN response_data["data"]["environment"]
            \/ "lineage" \notin DOMAIN response_data["data"]["environment"]["definition"]
    THEN Raise("KeyError")
    ELSE LET lineage_data == response_data["data"]["environment"]["definition"]["lineage"]
         IN  Ok([i \in 1..Len(lineage_data) |-> ModelRow(lineage_data[i])])

----------------------------------------------------------------------------
(* parse_column_lineage_to_df, metadata_api.py:214-262 *)

\* range(1, 11) at line 254
NumColumnParentColumns == 10
ColumnParentKeys == <<"parent_column_1", "parent_column_2", "parent_column_3",
                      "parent_column_4", "parent_column_5", "parent_column_6",
                      "parent_column_7", "parent_column_8", "parent_column_9",
                      "parent_column_10">>

\* str.lower() on the characters column names are drawn from
LowerChar(c) ==
    CASE c = "A" -> "a"
      [] c = "B" -> "b"
      [] OTHER -> c

\* faulty variant: line 239 without .lower()
LowerOmitted(s) == s

Lower(s) == [i \in 1..Len(s) |-> LowerChar(s[i])]

\* lines 233-258: one row
ColumnRow(item) ==
    [project_id |-> Get(item, "projectId"),
     node_id |-> Get(item, "nodeUniqueId"),
     column_node_id |-> Get(item, "uniqueId"),
     column_name |-> Lower(item["name"]),
     description |-> Get(item, "description"),
     is_primary_key |-> Get(item, "isPrimaryKey"),
     transformation_type |-> Get(item, "transformationType"),
     description_origin_column_name |-> Get(item, "descriptionOriginColumnName"),
     description_origin_resource_unique_id |-> Get(item, "descriptionOriginResourceUniqueId"),
     relationship |-> Get(item, "relationship"),
     parent_columns |-> Get(item, "parentColumns"),
     child_columns |-> Get(item, "ChildColumns")]
    @@ FanOut(ColumnParentKeys, NumColumnParentColumns,
              IF "parentColumns" \in DOMAIN item THEN item["parentColumns"] ELSE <<>>)

\* line 239: item.get("name").lower() raises AttributeError on a missing or null name
ColumnRowRaises(item) == Get(item, "name") = Null

parse_column_lineage_to_df(response_data) ==
    IF \/ DOMAIN response_data = {}
       \/ "data" \notin DOMAIN response_data
       \/ "column" \notin DOMAIN response_data["data"]
    THEN Ok(EmptyDataFrame)
    ELSE IF "lineage" \notin DOMAIN response_data["data"]["column"]
    THEN Raise("KeyError")
    ELSE LET lineage_data == response_data["data"]["column"]["lineage"]
         IN  IF \E i \in 1..Len(lineage_data) : ColumnRowRaises(lineage_data[i])
             THEN Raise("AttributeError")
             ELSE Ok([i \in 1..Len(lineage_data) |-> ColumnRow(lineage_data[i])])

----------------------------------------------------------------------------
(* execute_query, metadata_api.py:26-57 *)

\* env_id, line 7: the value of DBT_METADATA_ENVIRONMENT_ID
EnvIdValue == <<"env123">>
\* the key "environmentId", line 38, in two atoms so that a shorter name can
\* be a prefix of it
EnvKey == <<"environment", "Id">>

\* a dict with ordered keys is the sequence of its [key, value] items
HasKey(d, key) == \E i \in 1..Len(d) : d[i].key = key
ValueOf(d, key) == d[CHOOSE i \in 1..Len(d) : d[i].key = key].value

\* a | b, line 41: the keys of a in their order with b's values winning, then
\* the keys only b has
DictUnion(a, b) ==
    [i \in 1..Len(a) |->
        IF HasKey(b, a[i].key) THEN [key |-> a[i].key, value |-> ValueOf(b, a[i].key)]
        ELSE a[i]]
    \o SelectSeq(b, LAMBDA item : ~HasKey(a, item.key))

\* json.dumps of a str, line 47: quoted, with '"' and '\' escaped
JsonEscape(c) ==
    IF c = "\"" \/ c = "\\" THEN <<"\\", c>> ELSE <<c>>

\* faulty variant: line 47 with str(value): no quotes
JsonDumpsBare(value) == value

JsonDumps(value) ==
    <<"\"">> \o Flatten([i \in 1..Len(value) |-> JsonEscape(value[i])]) \o <<"\"">>

\* str.replace(old, new), line 48: every non-overlapping occurrence, left to right
RECURSIVE Replace(_, _, _)
Replace(s, old, new) ==
    IF Len(s) < Len(old) THEN s
    ELSE IF SubSeq(s, 1, Len(old)) = old
    THEN new \o Replace(SubSeq(s, Len(old) + 1, Len(s)), old, new)
    ELSE <<Head(s)>> \o Replace(Tail(s), old, new)

\* lines 45-48: the loop over variables.items()
RECURSIVE SubstituteVariables(_, _)
SubstituteVariables(query, variables) ==
    IF variables = <<>> THEN query
    ELSE SubstituteVariables(
            Replace(query, <<"$">> \o Head(variables).key, JsonDumps(Head(variables).value)),
            Tail(variables))

\* lines 38-43
MergedVariables(variables) ==
    LET env == <<[key |-> EnvKey, value |-> EnvIdValue]>>
    IN  IF variables # <<>> THEN DictUnion(variables, env) ELSE env

\* faulty variant: lines 52-57 with response.raise_for_status()
execute_query_result_raising(answer) ==
    IF answer.status = 200
    THEN IF answer.decodable THEN Ok(answer.body) ELSE Raise("JSONDecodeError")
    ELSE Raise("HTTPError")

\* lines 52-57 on the answer to the POST; response.json() raises on a body
\* that is not JSON
execute_query_result(answer) ==
    IF answer.status = 200
    THEN IF answer.decodable THEN Ok(answer.body) ELSE Raise("JSONDecodeError")
    ELSE Ok(EmptyMap)

\* the whole call: the POSTs it makes (query sent, answer got) and its outcome
execute_query(query, variables, answer) ==
    LET sent == SubstituteVariables(query, MergedVariables(variables))
    IN  [posts |-> <<[query |-> sent, answer |-> answer]>>,
         outcome |-> execute_query_result(answer)]

\* query_model_lineage, lines 59-98
ModelLineageQuery ==
    <<"query Environment { environment(id: ", "$", "environment", "Id",
      ") { adapterType dbtProjectName definition { lineage(filter: { types: Model }) { access ... version } } } }">>

query_model_lineage(answer) == execute_query(ModelLineageQuery, <<>>, answer)

\* query_column_lineage, lines 100-143
ColumnLineageQuery ==
    <<"query Column { column(", "environment", "Id", ": ", "$", "environment", "Id",
      ") { lineage(", "nodeUniqueId", ": ", "$", "nodeUniqueId",
      ") { accountId ... ", "environment", "Id", " ... ", "nodeUniqueId", " ... uniqueId } } }">>

query_column_lineage(node_unique_id, answer) ==
    execute_query(ColumnLineageQuery,
                  <<[key |-> <<"nodeUniqueId">>, value |-> node_unique_id]>>, answer)

----------------------------------------------------------------------------
(* Inputs of the parsers: responses of the metadata service *)

Join2(a, b) == a \o <<".">> \o b

\* segs joined with '.'
RECURSIVE JoinDots(_)
JoinDots(segs) ==
    IF Len(segs) = 1 THEN segs[1] ELSE Join2(segs[1], JoinDots(Tail(segs)))

SegModel == <<"m", "o", "d", "e", "l">>
SegModels == <<"m", "o", "d", "e", "l", "s">>
SegSource == <<"s", "r", "c">>
SegmentChoices == {SegModel, SegModels, SegSource, <<"a">>, <<"b">>, <<>>}

\* every identifier of 1..MaxSegments segments
AllIds == {JoinDots(segs) : segs \in SeqsUpTo(SegmentChoices, MaxSegments) \ {<<>>}}

IdA == JoinDots(<<SegModel, <<"a">>, <<"x">>>>)
IdB == JoinDots(<<SegModel, <<"b">>, <<"y">>>>)
IdSource == JoinDots(<<SegSource, <<"a">>, <<"raw">>>>)
IdVersioned == JoinDots(<<SegModel, <<"a">>, <<"x">>, <<"v2">>>>)
IdShort == JoinDots(<<SegModel, <<"a">>>>)
IdChoices == {IdA, IdB, IdSource, IdVersioned, IdShort}

\* k distinct model parents
Fill(k) == [i \in 1..k |-> JoinDots(<<SegModel, <<"p">>, <<ToString(i)>>>>)]

ParentLists ==
    LET frees == SeqsUpTo(IdChoices, MaxFree)
    IN  {f \o Fill(k) : f \in frees, k \in 0..MaxFill}
        \cup {Fill(k) \o f : f \in frees, k \in 0..MaxFill}

ModelEntry(uid, pids) == [uniqueId |-> uid, name |-> <<"n">>, parentIds |-> pids]

SimpleModelEntries ==
    {ModelEntry(u, p) : u \in {Null, IdA, IdB}, p \in {<<>>, <<IdA>>, <<IdSource, IdB>>}}

ModelLineages ==
    {<<ModelEntry(IdA, p)>> : p \in ParentLists}
    \cup SeqsUpTo(SimpleModelEntries, MaxEntries)

ModelResponse(lineage) ==
    [data |-> [environment |-> [definition |-> [lineage |-> lineage]]]]

\* responses with a key of the path data.environment.definition.lineage absent
ModelShapeErrors ==
    {EmptyMap,
     [errors |-> <<>>],
     [data |-> EmptyMap],
     [data |-> [environment |-> EmptyMap]],
     [data |-> [environment |-> [definition |-> EmptyMap]]]}

ModelResponses == ModelShapeErrors \cup {ModelResponse(l) : l \in ModelLineages}

NameChars == {"A", "a", "B", "_"}
ColumnNames == SeqsUpTo(NameChars, MaxNameLen) \ {<<>>}

ColA == <<"c", "1">>
ColumnChoices == {<<"x">>, IdA, IdSource, <<>>}

ColFill(k) == [i \in 1..k |-> <<"c", ToString(i)>>]

ColumnParentLists ==
    LET frees == SeqsUpTo(ColumnChoices, MaxFree)
    IN  {f \o ColFill(k) : f \in frees, k \in 0..MaxFill}
        \cup {ColFill(k) \o f : f \in frees, k \in 0..MaxFill}

ColumnEntry(node, name, pcs) ==
    [nodeUniqueId |-> node, name |-> name, parentColumns |-> pcs, childColumns |-> <<ColA>>]

SimpleColumnEntries ==
    {ColumnEntry(IdA, n, p) : n \in {<<"A">>, <<"b">>}, p \in {<<>>, <<ColA>>}}

ColumnLineages ==
    {<<ColumnEntry(IdA, <<"A", "b">>, p)>> : p \in ColumnParentLists}
    \cup {<<ColumnEntry(IdA, n, <<ColA>>)>> : n \in ColumnNames}
    \cup SeqsUpTo(SimpleColumnEntries, MaxEntries)

ColumnResponse(lineage) == [data |-> [column |-> [lineage |-> lineage]]]

\* responses with a key of the path data.column.lineage absent
ColumnShapeErrors ==
    {EmptyMap,
     [errors |-> <<>>],
     [data |-> EmptyMap],
     [data |-> [column |-> EmptyMap]]}

ColumnResponses == ColumnShapeErrors \cup {ColumnResponse(l) : l \in ColumnLineages}

----------------------------------------------------------------------------
(* The state of a run that has not started; the parts a specification does
   not use stay at these values *)

NoCall == [fn |-> "none"]
NoResult == Ok(EmptyDataFrame)

MainIdle ==
    /\ model_df = EmptyDataFrame
    /\ response = EmptyMap
    /\ build_model_df = EmptyDataFrame
    /\ idx = 0
    /\ all_column_lineage_rows = <<>>
    /\ column_lineage_df = EmptyDataFrame
    /\ files = EmptyMap
    /\ col_queried = <<>>

----------------------------------------------------------------------------
(* SpecParse: the flattening functions applied to every response drawn *)

ParseInit ==
    /\ pc = "call"
    /\ arg \in {[fn |-> "parse_model_lineage_to_df", response_data |-> r] : r \in ModelResponses}
          \cup {[fn |-> "parse_column_lineage_to_df", response_data |-> r] : r \in ColumnResponses}
          \cup {[fn |-> "extract_parent_model_name", parent_id |-> p] : p \in AllIds}
    /\ ret = NoResult
    /\ http = <<>>
    /\ MainIdle

CallParseModelLineage ==
    /\ pc = "call"
    /\ arg.fn = "parse_model_lineage_to_df"
    /\ ret' = parse_model_lineage_to_df(arg.response_data)
    /\ pc' = "returned"
    /\ UNCHANGED <<arg, http, mainVars>>

CallParseColumnLineage ==
    /\ pc = "call"
    /\ arg.fn = "parse_column_lineage_to_df"
    /\ ret' = parse_column_lineage_to_df(arg.response_data)
    /\ pc' = "returned"
    /\ UNCHANGED <<arg, http, mainVars>>

CallExtractParentModelName ==
    /\ pc = "call"
    /\ arg.fn = "extract_parent_model_name"
    /\ ret' = Ok(extract_parent_model_name(arg.parent_id))
    /\ pc' = "returned"
    /\ UNCHANGED <<arg, http, mainVars>>

ParseNext ==
    \/ CallParseModelLineage
    \/ CallParseColumnLineage
    \/ CallExtractParentModelName

SpecParse == ParseInit /\ [][ParseNext]_vars

----------------------------------------------------------------------------
(* SpecExec: execute_query applied to every query, variables and answer drawn *)

TemplatePieces ==
    {<<"$">>, <<"$", "environment", "Id">>, <<"$", "nodeUniqueId">>,
     <<"$", "environment">>, <<"Id">>, <<" ">>}
Templates ==
    {Flatten(ps) : ps \in SeqsUpTo(TemplatePieces, MaxTemplatePieces)}
    \cup {ModelLineageQuery, ColumnLineageQuery}

ValuePieces ==
    {<<"v">>, <<"$", "environment", "Id">>, <<"$", "nodeUniqueId">>,
     <<"\"">>, <<"\\">>, <<"environment">>}
Values == {Flatten(ps) : ps \in SeqsUpTo(ValuePieces, MaxValuePieces)} \cup {IdA}

\* the callers pass no variable (line 98) or one (lines 139-143)
CallerKeys == {<<"nodeUniqueId">>, <<"environment">>, EnvKey}
CallerVariables ==
    {<<>>} \cup {<<[key |-> k, value |-> v]>> : k \in CallerKeys, v \in Values}

SampleBody == [data |-> EmptyMap]
Statuses == {200, 201, 500}
ExecAnswers ==
    {[status |-> s, decodable |-> TRUE, body |-> b] : s \in Statuses, b \in {EmptyMap, SampleBody}}
    \cup {[status |-> s, decodable |-> FALSE, body |-> EmptyMap] : s \in Statuses}

ExecInit ==
    /\ pc = "call"
    /\ arg \in {[fn |-> "execute_query", query |-> q, variables |-> v] :
                    q \in Templates, v \in CallerVariables}
    /\ ret = NoResult
    /\ http = <<>>
    /\ MainIdle

CallExecuteQuery ==
    /\ pc = "call"
    /\ arg.fn = "execute_query"
    /\ \E answer \in ExecAnswers :
        LET call == execute_query(arg.query, arg.variables, answer)
        IN  /\ http' = http \o call.posts
            /\ ret' = call.outcome
    /\ pc' = "returned"
    /\ UNCHANGED <<arg, mainVars>>

ExecNext == CallExecuteQuery

SpecExec == ExecInit /\ [][ExecNext]_vars

----------------------------------------------------------------------------
(* Spec: one run of main (get_lineage.py:4-29) with
   build_comprehensive_column_lineage (metadata_api.py:264-305) inlined at the
   call of line 21; the service picks its answer to each POST *)

MainModelEntries == {ModelEntry(u, <<>>) : u \in {Null, IdA, IdB}}

Answer200(body) == [status |-> 200, decodable |-> TRUE, body |-> body]
AnswerNotJson == [status |-> 200, decodable |-> FALSE, body |-> EmptyMap]
AnswerFailure == [status |-> 500, decodable |-> FALSE, body |-> EmptyMap]

\* the service's possible answers to the model-lineage query
ModelAnswers ==
    {AnswerFailure, AnswerNotJson,
     Answer200([errors |-> <<>>]),
     Answer200([data |-> [environment |-> EmptyMap]])}
    \cup {Answer200(ModelResponse(l)) : l \in SeqsUpTo(MainModelEntries, MaxEntries)}

\* the service's possible answers to the column-lineage query of a node
ColumnAnswers(node) ==
    {AnswerFailure, AnswerNotJson,
     Answer200([data |-> [column |-> EmptyMap]]),
     Answer200(ColumnResponse(<<>>)),
     Answer200(ColumnResponse(<<ColumnEntry(node, <<"A">>, <<>>),
                                ColumnEntry(node, <<"b">>, <<ColA>>)>>))}

Init ==
    /\ pc = "main_query_model"
    /\ arg = NoCall
    /\ ret = NoResult
    /\ http = <<>>
    /\ MainIdle

\* an exception nothing catches ends main
Crash ==
    /\ pc' = "crashed"
    /\ UNCHANGED <<model_df, response, build_model_df, idx, all_column_lineage_rows,
                   column_lineage_df, files, col_queried>>

\* get_lineage.py:10
MainQueryModelLineage ==
    /\ pc = "main_query_model"
    /\ \E answer \in ModelAnswers :
        LET call == query_model_lineage(answer)
        IN  /\ http' = http \o call.posts
            /\ IF call.outcome.raised THEN Crash
               ELSE /\ response' = call.outcome.value
                    /\ pc' = "main_parse_model"
                    /\ UNCHANGED <<model_df, build_model_df, idx, all_column_lineage_rows,
                                   column_lineage_df, files, col_queried>>
    /\ UNCHANGED <<arg, ret>>

\* get_lineage.py:11
MainParseModelLineage ==
    /\ pc = "main_parse_model"
    /\ LET parsed == parse_model_lineage_to_df(response)
       IN  IF parsed.raised THEN Crash
           ELSE /\ model_df' = parsed.value
                /\ pc' = "main_write_model"
                /\ UNCHANGED <<response, build_model_df, idx, all_column_lineage_rows,
                               column_lineage_df, files, col_queried>>
    /\ UNCHANGED <<arg, ret, http>>

\* df.to_parquet(name)
ToParquet(name, df) ==
    [f \in DOMAIN files \cup {name} |-> IF f = name THEN df ELSE files[f]]

\* get_lineage.py:13-17
MainWriteModel ==
    /\ pc = "main_write_model"
    /\ files' = IF model_df # EmptyDataFrame
                THEN ToParquet("dbt_model_lineage.parquet", model_df)
                ELSE files
    /\ pc' = "build_query_model"
    /\ UNCHANGED <<arg, ret, http, model_df, response, build_model_df, idx,
                   all_column_lineage_rows, column_lineage_df, col_queried>>

\* metadata_api.py:275
BuildQueryModelLineage ==
    /\ pc = "build_query_model"
    /\ \E answer \in ModelAnswers :
        LET call == query_model_lineage(answer)
        IN  /\ http' = http \o call.posts
            /\ IF call.outcome.raised THEN Crash
               ELSE /\ response' = call.outcome.value
                    /\ pc' = "build_parse_model"
                    /\ UNCHANGED <<model_df, build_model_df, idx, all_column_lineage_rows,
                                   column_lineage_df, files, col_queried>>
    /\ UNCHANGED <<arg, ret>>

\* metadata_api.py:276-282
BuildParseModelLineage ==
    /\ pc = "build_parse_model"
    /\ LET parsed == parse_model_lineage_to_df(response)
       IN  IF parsed.raised THEN Crash
           ELSE /\ build_model_df' = parsed.value
                /\ idx' = 0
                /\ all_column_lineage_rows' = <<>>
                /\ IF parsed.value = EmptyDataFrame
                   THEN /\ column_lineage_df' = EmptyDataFrame
                        /\ pc' = "main_write_columns"
                   ELSE /\ column_lineage_df' = column_lineage_df
                        /\ pc' = "build_next_model"
                /\ UNCHANGED <<model_df, response, files, col_queried>>
    /\ UNCHANGED <<arg, ret, http>>

\* line 289: if not unique_id
SkipsModel(unique_id) == ~Truthy(unique_id)

\* metadata_api.py:287-290: the next row of model_df, skipped without a node id
BuildNextModel ==
    /\ pc = "build_next_model"
    /\ IF idx = Len(build_model_df)
       THEN /\ pc' = "build_concat"
            /\ idx' = idx
       ELSE /\ idx' = idx + 1
            /\ pc' = IF SkipsModel(build_model_df[idx + 1]["node_id"])
                     THEN "build_next_model"
                     ELSE "build_query_column"
    /\ UNCHANGED <<arg, ret, http, model_df, response, build_model_df,
                   all_column_lineage_rows, column_lineage_df, files, col_queried>>

\* faulty variant: the handler of lines 299-300 outside the loop: an error ends it
AfterModelErrorBreak == "build_concat"

\* lines 299-300: the exception is caught and printed, the loop goes on
AfterModelError == "build_next_model"

\* metadata_api.py:293
BuildQueryColumnLineage ==
    /\ pc = "build_query_column"
    /\ LET unique_id == build_model_df[idx]["node_id"]
       IN  \E answer \in ColumnAnswers(unique_id) :
            LET call == query_column_lineage(unique_id, answer)
            IN  /\ http' = http \o call.posts
                /\ col_queried' = Append(col_queried, unique_id)
                /\ IF call.outcome.raised
                   THEN /\ pc' = AfterModelError
                        /\ response' = response
                   ELSE /\ pc' = "build_parse_column"
                        /\ response' = call.outcome.value
    /\ UNCHANGED <<arg, ret, model_df, build_model_df, idx, all_column_lineage_rows,
                   column_lineage_df, files>>

\* metadata_api.py:294-297
BuildParseColumnLineage ==
    /\ pc = "build_parse_column"
    /\ LET parsed == parse_column_lineage_to_df(response)
       IN  IF parsed.raised
           THEN /\ pc' = AfterModelError
                /\ all_column_lineage_rows' = all_column_lineage_rows
           ELSE /\ pc' = "build_next_model"
                /\ all_column_lineage_rows' =
                     IF parsed.value # EmptyDataFrame
                     THEN Append(all_column_lineage_rows, parsed.value)
                     ELSE all_column_lineage_rows
    /\ UNCHANGED <<arg, ret, http, model_df, response, build_model_df, idx,
                   column_lineage_df, files, col_queried>>

\* faulty variant: line 303 returning the last table only
pd_concat_last(tables) == tables[Len(tables)]

\* pd.concat(tables, ignore_index=True), line 303
pd_concat(tables) == Flatten(tables)

\* metadata_api.py:302-305 and the assignment of get_lineage.py:21
BuildConcat ==
    /\ pc = "build_concat"
    /\ column_lineage_df' = IF all_column_lineage_rows # <<>>
                            THEN pd_concat(all_column_lineage_rows)
                            ELSE EmptyDataFrame
    /\ pc' = "main_write_columns"
    /\ UNCHANGED <<arg, ret, http, model_df, response, build_model_df, idx,
                   all_column_lineage_rows, files, col_queried>>

\* get_lineage.py:23-29
MainWriteColumns ==
    /\ pc = "main_write_columns"
    /\ files' = IF column_lineage_df # EmptyDataFrame
                THEN ToParquet("dbt_column_lineage.parquet", column_lineage_df)
                ELSE files
    /\ pc' = "done"
    /\ UNCHANGED <<arg, ret, http, model_df, response, build_model_df, idx,
                   all_column_lineage_rows, column_lineage_df, col_queried>>

Next ==
    \/ MainQueryModelLineage
    \/ MainParseModelLineage
    \/ MainWriteModel
    \/ BuildQueryModelLineage
    \/ BuildParseModelLineage
    \/ BuildNextModel
    \/ BuildQueryColumnLineage
    \/ BuildParseColumnLineage
    \/ BuildConcat
    \/ MainWriteColumns

Spec == Init /\ [][Next]_vars

----------------------------------------------------------------------------
(* Notions the claims are stated in, defined apart from the code's operators *)

\* s split at every '.'
RECURSIVE SplitDots(_)
SplitDots(s) ==
    IF \A i \in 1..Len(s) : s[i] # "." THEN <<s>>
    ELSE LET i == CHOOSE j \in 1..Len(s) : s[j] = "." /\ \A h \in 1..(j - 1) : s[h] # "."
         IN  <<SubSeq(s, 1, i - 1)>> \o SplitDots(SubSeq(s, i + 1, Len(s)))

\* the identifier has the form model.<pkg>.<name>, possibly with more segments
MatchesModelPattern(id) ==
    LET segs == SplitDots(id)
    IN  /\ Len(segs) >= 3
        /\ segs[1] = <<"m", "o", "d", "e", "l">>
        /\ segs[2] # <<>>
        /\ segs[3] # <<>>

\* '<pkg>.<name>' from the first two segments after the prefix
PkgDotName(id) == LET segs == SplitDots(id) IN segs[2] \o <<".">> \o segs[3]

\* what one raw parent identifier contributes to the fan-out list
Contribution(id) == IF MatchesModelPattern(id) THEN <<PkgDotName(id)>> ELSE <<>>

RecognizedParents(parent_ids) ==
    Flatten([i \in 1..Len(parent_ids) |-> Contribution(parent_ids[i])])

Take(s, n) == SubSeq(s, 1, IF Len(s) < n THEN Len(s) ELSE n)

RECURSIVE PathPresent(_, _)
PathPresent(d, path) ==
    \/ path = <<>>
    \/ /\ Head(path) \in DOMAIN d
       /\ PathPresent(d[Head(path)], Tail(path))

ModelPath == <<"data", "environment", "definition", "lineage">>
ColumnPath == <<"data", "column", "lineage">>

ModelBaseColumns ==
    {"project_id", "database", "schema", "name", "node_id", "tags", "resource_type",
     "materialization", "access", "group", "version", "parent_ids", "public_parent_ids"}

ColumnBaseColumns ==
    {"project_id", "node_id", "column_node_id", "column_name", "description",
     "is_primary_key", "transformation_type", "description_origin_column_name",
     "description_origin_resource_unique_id", "relationship", "parent_columns",
     "child_columns"}

ReturnedFrom(fn) == pc = "returned" /\ arg.fn = fn

ModelParseOfValid ==
    /\ ReturnedFrom("parse_model_lineage_to_df")
    /\ PathPresent(arg.response_data, ModelPath)

ColumnParseOfValid ==
    /\ ReturnedFrom("parse_column_lineage_to_df")
    /\ PathPresent(arg.response_data, ColumnPath)

ArgModelLineage == arg.response_data["data"]["environment"]["definition"]["lineage"]
ArgColumnLineage == arg.response_data["data"]["column"]["lineage"]

\* the non-null values of the numbered columns of a row, in column order
NumberedValues(row, keys) ==
    SelectSeq([k \in 1..Len(keys) |-> row[keys[k]]], LAMBDA v : v # Null)

----------------------------------------------------------------------------
(* Claims on the flattening functions, checked under SpecParse *)

\* C5: both parsers fail soft on a shape error: whenever a key of the path
\* data.environment.definition.lineage (model parser) or data.column.lineage
\* (column parser) is absent, the parser raises nothing and returns an empty
\* table.
C5_ParsersFailSoft ==
    /\ (ReturnedFrom("parse_model_lineage_to_df")
            /\ ~PathPresent(arg.response_data, ModelPath))
        => ret = Ok(EmptyDataFrame)
    /\ (ReturnedFrom("parse_column_lineage_to_df")
            /\ ~PathPresent(arg.response_data, ColumnPath))
        => ret = Ok(EmptyDataFrame)

\* C6: for a valid model-lineage response the table has one row per lineage
\* entry, in entry order; every row has exactly the columns parent_1..parent_10;
\* parent_i is the i-th recognized model parent when there are at least i and
\* null otherwise; a recognized parent beyond the 10th is in no numbered column.
C6_ModelRowsAndParentColumns ==
    ModelParseOfValid =>
        /\ ~ret.raised
        /\ Len(ret.value) = Len(ArgModelLineage)
        /\ \A i \in 1..Len(ArgModelLineage) :
            LET row == ret.value[i]
                entry == ArgModelLineage[i]
                rec == RecognizedParents(entry.parentIds)
            IN  /\ row["node_id"] = entry.uniqueId
                /\ row["parent_ids"] = entry.parentIds
                /\ DOMAIN row \ ModelBaseColumns
                     = {"parent_1", "parent_2", "parent_3", "parent_4", "parent_5",
                        "parent_6", "parent_7", "parent_8", "parent_9", "parent_10"}
                /\ \A k \in 1..10 :
                     row[ModelParentKeys[k]] = IF k <= Len(rec) THEN rec[k] ELSE Null
                /\ \A j \in 11..Len(rec) :
                     (\A h \in 1..10 : rec[h] # rec[j])
                        => \A k \in 1..10 : row[ModelParentKeys[k]] # rec[j]

\* a row with more than 10 recognized parents, one of them after a dropped one
C6_Witness ==
    /\ ModelParseOfValid
    /\ ~ret.raised
    /\ \E i \in 1..Len(ArgModelLineage) :
        /\ Len(RecognizedParents(ArgModelLineage[i].parentIds)) > 10
        /\ Len(ArgModelLineage[i].parentIds)
             > Len(RecognizedParents(ArgModelLineage[i].parentIds))
        /\ ret.value[i]["parent_10"] # Null

\* C7: a raw parent identifier contributes to the fan-out list if and only if
\* it matches model.<pkg>.<name>, and then contributes the one entry
\* '<pkg>.<name>' of the first two segments after 'model.'; every other
\* identifier contributes nothing (no null in its place); the entries keep the
\* order of the raw list.
C7_ParentNameDerivation ==
    /\ ReturnedFrom("extract_parent_model_name") =>
        ret.value = IF MatchesModelPattern(arg.parent_id)
                    THEN PkgDotName(arg.parent_id) ELSE Null
    /\ ModelParseOfValid =>
        /\ ~ret.raised
        /\ \A i \in 1..Len(ArgModelLineage) :
            NumberedValues(ret.value[i], ModelParentKeys)
              = Take(RecognizedParents(ArgModelLineage[i].parentIds), 10)
        /\ \A i \in 1..Len(ArgModelLineage) : \A k \in 1..9 :
            ret.value[i][ModelParentKeys[k]] = Null
                => ret.value[i][ModelParentKeys[k + 1]] = Null

\* a non-model parent in front of a model parent: the model parent is parent_1
C7_Witness ==
    /\ ModelParseOfValid
    /\ ~ret.raised
    /\ \E i \in 1..Len(ArgModelLineage) :
        LET pids == ArgModelLineage[i].parentIds
        IN  /\ Len(pids) >= 2
            /\ ~MatchesModelPattern(pids[1])
            /\ MatchesModelPattern(pids[2])
            /\ ret.value[i]["parent_1"] = PkgDotName(pids[2])

\* out is s with every upper-case character replaced by its lower-case one
IsLowerCaseOf(out, s) ==
    /\ Len(out) = Len(s)
    /\ \A i \in 1..Len(s) :
        out[i] = (IF s[i] = "A" THEN "a" ELSE IF s[i] = "B" THEN "b" ELSE s[i])

\* C9: for a column-lineage response with data.column.lineage present the table
\* has one row per entry, in entry order; column_name is the lower-case form of
\* the entry's name; parent_column_1..parent_column_10 hold the first 10 raw
\* parent columns in raw order, unfiltered, null-padded.
C9_ColumnRows ==
    ColumnParseOfValid =>
        /\ ~ret.raised
        /\ Len(ret.value) = Len(ArgColumnLineage)
        /\ \A i \in 1..Len(ArgColumnLineage) :
            LET row == ret.value[i]
                entry == ArgColumnLineage[i]
                raw == entry.parentColumns
            IN  /\ IsLowerCaseOf(row["column_name"], entry.name)
                /\ row["parent_columns"] = raw
                /\ DOMAIN row \ ColumnBaseColumns
                     = {"parent_column_1", "parent_column_2", "parent_column_3",
                        "parent_column_4", "parent_column_5", "parent_column_6",
                        "parent_column_7", "parent_column_8", "parent_column_9",
                        "parent_column_10"}
                /\ \A k \in 1..10 :
                     row[ColumnParentKeys[k]] = IF k <= Len(raw) THEN raw[k] ELSE Null

\* an upper-case name and more than 10 raw parents, one that looks like no column
C9_Witness ==
    /\ ColumnParseOfValid
    /\ ~ret.raised
    /\ \E i \in 1..Len(ArgColumnLineage) :
        /\ \E c \in 1..Len(ArgColumnLineage[i].name) : ArgColumnLineage[i].name[c] = "A"
        /\ Len(ArgColumnLineage[i].parentColumns) > 10
        /\ ArgColumnLineage[i].parentColumns[1] = <<>>
        /\ ret.value[i]["parent_column_1"] = <<>>
        /\ ret.value[i]["parent_column_10"] # Null

----------------------------------------------------------------------------
(* Claims on execute_query, checked under SpecExec *)

Is2xx(status) == status >= 200 /\ status <= 299

ExecReturned == ReturnedFrom("execute_query")
LastAnswer == http[Len(http)].answer

\* C4 as stated: the decoded body is returned for every 2xx status; for every
\* non-2xx status the result is an empty mapping, no second request is sent
\* and nothing is raised.
C4_Original ==
    ExecReturned =>
        /\ (Is2xx(LastAnswer.status) /\ LastAnswer.decodable) => ret = Ok(LastAnswer.body)
        /\ ~Is2xx(LastAnswer.status) => (ret = Ok(EmptyMap) /\ Len(http) = 1)

\* C4 (amended): execute_query returns the decoded response body when the
\* status is exactly 200 and the body decodes; for every other status, the
\* other 2xx included, it returns an empty mapping and raises nothing; in
\* every case it has sent exactly one request (no retry).
C4_StatusHandling ==
    ExecReturned =>
        /\ Len(http) = 1
        /\ (LastAnswer.status = 200 /\ LastAnswer.decodable) => ret = Ok(LastAnswer.body)
        /\ LastAnswer.status # 200 => ret = Ok(EmptyMap)

\* a 2xx answer other than 200 with a body: the body is dropped
C4_Witness ==
    /\ ExecReturned
    /\ Is2xx(LastAnswer.status)
    /\ LastAnswer.status # 200
    /\ LastAnswer.decodable
    /\ LastAnswer.body # EmptyMap
    /\ ret = Ok(EmptyMap)

\* the JSON string literal of a value
JsonLiteral(value) ==
    <<"\"">>
    \o Flatten([i \in 1..Len(value) |->
                  IF value[i] \in {"\"", "\\"} THEN <<"\\", value[i]>> ELSE <<value[i]>>])
    \o <<"\"">>

Placeholder(key) == <<"$">> \o key

\* the merged variable set: the caller's variables plus environmentId
MergedSet(variables) ==
    {variables[i] : i \in {j \in 1..Len(variables) : variables[j].key # EnvKey}}
    \cup {[key |-> EnvKey, value |-> EnvIdValue]}

\* the template with every placeholder (the longest variable name that follows
\* a '$') replaced by its literal, in one pass: inserted text is not read again
RECURSIVE SubstitutedAtOnce(_, _)
SubstitutedAtOnce(template, V) ==
    IF template = <<>> THEN <<>>
    ELSE LET here == {v \in V : StartsWith(template, Placeholder(v.key))}
         IN  IF here = {}
             THEN <<Head(template)>> \o SubstitutedAtOnce(Tail(template), V)
             ELSE LET v == CHOOSE w \in here : \A u \in here : Len(u.key) <= Len(w.key)
                  IN  JsonLiteral(v.value)
                      \o SubstitutedAtOnce(
                            SubSeq(template, Len(v.key) + 2, Len(template)), V)

SentQuery == http[Len(http)].query

\* C8 as stated: for every template and all variable values the query sent is
\* the template with every placeholder of every merged variable replaced by
\* the JSON literal of its value, no literal being altered by the substitution
\* of another variable.
C8_Original ==
    ExecReturned => SentQuery = SubstitutedAtOnce(arg.query, MergedSet(arg.variables))

Contains(s, sub) ==
    \E i \in 0..(Len(s) - Len(sub)) : SubSeq(s, i + 1, i + Len(sub)) = sub

ProperPrefix(a, b) == Len(a) < Len(b) /\ SubSeq(b, 1, Len(a)) = a

\* the order the variables are substituted in: the caller's, then environmentId
SubstitutionOrder(variables) ==
    SelectSeq(variables, LAMBDA item : item.key # EnvKey)
    \o <<[key |-> EnvKey, value |-> EnvIdValue]>>

\* no literal holds the placeholder of a variable substituted after it, and no
\* name is a proper prefix of the name of a variable substituted after it
NoInterference(variables) ==
    LET order == SubstitutionOrder(variables)
    IN  \A i \in 1..Len(order) : \A j \in (i + 1)..Len(order) :
            /\ ~Contains(JsonLiteral(order[i].value), Placeholder(order[j].key))
            /\ ~ProperPrefix(order[i].key, order[j].key)

\* C8 (amended): the query sent is the template with every placeholder of
\* every merged variable replaced by the JSON literal of its value, provided
\* that no variable's literal contains the placeholder of a variable
\* substituted after it and no variable's name is a proper prefix of the name
\* of a variable substituted after it.
C8_Substitution ==
    (ExecReturned /\ NoInterference(arg.variables))
        => SentQuery = SubstitutedAtOnce(arg.query, MergedSet(arg.variables))

\* the column query for a node: both literals appear quoted
C8_Witness ==
    /\ ExecReturned
    /\ NoInterference(arg.variables)
    /\ arg.query = ColumnLineageQuery
    /\ arg.variables = << [key |-> <<"nodeUniqueId">>, value |-> IdA] >>
    /\ Contains(SentQuery, <<"\"">> \o IdA \o <<"\"">>)
    /\ Contains(SentQuery, <<"\"">> \o EnvIdValue \o <<"\"">>)
    /\ ~Contains(SentQuery, <<"$">>)

----------------------------------------------------------------------------
(* Claims on the run of main, checked under Spec *)

\* build_comprehensive_column_lineage has returned to main
BuildReturned == pc \in {"main_write_columns", "done"}

\* the POSTs of the column-lineage query, in order
ColumnExchanges == SelectSeq(http, LAMBDA x : x.query[1] = ColumnLineageQuery[1])
ModelExchanges == SelectSeq(http, LAMBDA x : x.query[1] = ModelLineageQuery[1])

\* the node identifiers of a model table, in row order, nulls left out
NonNullNodeIds(df) ==
    SelectSeq([i \in 1..Len(df) |-> df[i]["node_id"]], LAMBDA v : v # Null)

\* the fetch or the parse of one model's column lineage fails on this answer:
\* a non-success status, a body that does not decode (query_column_lineage
\* raises), a body with data.column but no lineage (the parser raises)
ColumnFetchFails(answer) ==
    \/ answer.status # 200
    \/ ~answer.decodable
    \/ /\ PathPresent(answer.body, <<"data", "column">>)
       /\ ~PathPresent(answer.body, ColumnPath)

\* the column table of one model, from the service's answer
ColumnTableOf(answer) ==
    IF ColumnFetchFails(answer) \/ ~PathPresent(answer.body, ColumnPath)
    THEN EmptyDataFrame
    ELSE LET lineage == answer.body["data"]["column"]["lineage"]
         IN  [i \in 1..Len(lineage) |-> ColumnRow(lineage[i])]

\* C1: when the column fetch or parse of one model fails, every later model
\* row with a non-null node identifier is still queried, and the final table
\* holds the rows of all the other models' column tables: only the failing
\* model's rows are missing.
C1_FailureIsolation ==
    BuildReturned =>
        \A k \in 1..Len(ColumnExchanges) :
            ColumnFetchFails(ColumnExchanges[k].answer) =>
                LET ids == NonNullNodeIds(build_model_df)
                    others == SelectSeq(ColumnExchanges,
                                        LAMBDA x : ~ColumnFetchFails(x.answer))
                IN  /\ Len(col_queried) = Len(ids)
                    /\ \A j \in (k + 1)..Len(ids) : col_queried[j] = ids[j]
                    /\ column_lineage_df
                         = Flatten([i \in 1..Len(others) |->
                                       ColumnTableOf(others[i].answer)])

\* the first model's query raises, a later model's rows are in the result
C1_Witness ==
    /\ pc = "done"
    /\ Len(ColumnExchanges) >= 2
    /\ ~ColumnExchanges[1].answer.decodable
    /\ ColumnExchanges[1].answer.status = 200
    /\ ColumnTableOf(ColumnExchanges[2].answer) # EmptyDataFrame
    /\ column_lineage_df = ColumnTableOf(ColumnExchanges[2].answer)

\* C2: with M of the N rows of the model table having a non-null node
\* identifier, exactly M column queries are issued, one per such row and in
\* row order, and the result is the concatenation, in that order, of the
\* non-empty per-model column tables (an empty table if there are none).
C2_OneQueryPerModelInOrder ==
    BuildReturned =>
        LET ids == NonNullNodeIds(build_model_df)
        IN  /\ col_queried = ids
            /\ Len(ColumnExchanges) = Len(ids)
            /\ Len(ModelExchanges) + Len(ColumnExchanges) = Len(http)
            /\ \A i \in 1..Len(ids) :
                Contains(ColumnExchanges[i].query, <<"\"">> \o ids[i] \o <<"\"">>)
            /\ column_lineage_df
                 = Flatten([i \in 1..Len(ColumnExchanges) |->
                               ColumnTableOf(ColumnExchanges[i].answer)])

\* a table whose first row has no node identifier: one query, for the second
\* row, whose rows are the result
C2_Witness ==
    /\ pc = "done"
    /\ Len(build_model_df) = 2
    /\ build_model_df[1]["node_id"] = Null
    /\ col_queried = <<build_model_df[2]["node_id"]>>
    /\ Len(ColumnExchanges) = 1
    /\ Len(column_lineage_df) = 2
    /\ column_lineage_df = ColumnTableOf(ColumnExchanges[1].answer)

\* C3: no error is fatal: whatever JSON the service answers (a failure
\* status, a response with a missing key, zero lineage entries), main does
\* not end in an uncaught error.
C3_NoFatalError ==
    (\A i \in 1..Len(http) : http[i].answer.status = 200 => http[i].answer.decodable)
        => pc # "crashed"

\* the model table main wrote
PersistedModelTable ==
    IF "dbt_model_lineage.parquet" \in DOMAIN files
    THEN files["dbt_model_lineage.parquet"]
    ELSE EmptyDataFrame

SetOf(seq) == {seq[i] : i \in 1..Len(seq)}

\* C10: in one run of main the set of model identifiers a column query is
\* issued for equals the set of non-null node identifiers of the model table
\* main persisted.
C10_SameModelTable ==
    pc = "done" => SetOf(col_queried) = SetOf(NonNullNodeIds(PersistedModelTable))

====
